---- MODULE Spec2Model ----
(***************************************************************************)
(* Model of src/src/main.rs: LRUCache, a capacity-bounded key-value store  *)
(* (HashMap storage + VecDeque usage_order, front = most recently used).   *)
(* Keys and values are small integers; 0 stands for "no key" / "None".     *)
(***************************************************************************)
EXTENDS Integers, Sequences, FiniteSets, TLC

\* ---- bounds of the model
MaxCapacity == 3
NumKeys == 4
NumValues == 3
MaxClock == 5

Keys == 1..NumKeys
Values == 1..NumValues
NoKey == 0
NoVal == 0

VARIABLES
    phase,        \* "unbuilt" before LRUCache::new, "ready" after it, "aborted" if it panicked
    capacity,     \* LRUCache.capacity
    storage,      \* LRUCache.storage : HashMap<K,V>, a function on the stored keys
    usage_order,  \* LRUCache.usage_order : VecDeque<K>, index 1 = front
    last,         \* the last completed call: its name, arguments, return value, popped key
    clock,        \* reference model: logical time, the number of calls on the cache so far
    stamp,        \* reference model: clock value of each key's last touch (0 = never)
    last_set,     \* reference model: value of the most recent set of each key (NoVal = never)
    read_at,      \* clock of each key's last get hit since the last eviction (0 = none)
    scenario,     \* how many calls of the example of main the history is so far, -1 if it is not
    cache_storage, \* Cache.storage : HashMap<K,V> of the unbounded Cache
    cache_last    \* the last completed call on the unbounded Cache

vars == <<phase, capacity, storage, usage_order, last, clock, stamp, last_set, read_at,
          scenario, cache_storage, cache_last>>

\* the fields and call record of the unbounded Cache
cache_vars == <<cache_storage, cache_last>>

\* the fields, call record and reference model of the LRUCache, last_set excepted
lru_vars == <<phase, capacity, storage, usage_order, last, clock, stamp, read_at, scenario>>

\* ---- HashMap and VecDeque primitives used by the code
EmptyMap == [x \in {} |-> NoVal]

insert(m, key, value) ==
    [x \in (DOMAIN m) \cup {key} |-> IF x = key THEN value ELSE m[x]]

remove(m, key) == [x \in (DOMAIN m) \ {key} |-> m[x]]

contains_key(m, key) == key \in DOMAIN m

len(m) == Cardinality(DOMAIN m)

retain_ne(q, key) == SelectSeq(q, LAMBDA existing_key : existing_key # key)

push_front(q, key) == <<key>> \o q

back(q) == q[Len(q)]

pop_back(q) == SubSeq(q, 1, Len(q) - 1)

\* ---- Cache::set (lines 19-21) and Cache::get (lines 24-26)
cache_set_if_absent(m, key, value) ==
    IF contains_key(m, key) THEN m ELSE insert(m, key, value)

cache_set(m, key, value) == insert(m, key, value)

cache_get(m, key) == IF contains_key(m, key) THEN m[key] ELSE NoVal

\* ---- LRUCache::update_usage (lines 69-74), as a function of the deque
update_usage_keep_duplicate(q, key) == push_front(q, key)

update_usage_push_back(q, key) == retain_ne(q, key) \o <<key>>

update_usage(q, key) == push_front(retain_ne(q, key), key)

\* ---- the overflow test of LRUCache::set (line 52)
exceeds_off_by_one_high(m, cap) == len(m) > cap + 1

exceeds_off_by_one_low(m, cap) == len(m) >= cap

exceeds(m, cap) == len(m) > cap

\* ---- the eviction of LRUCache::set (lines 53-55): pop_back, then remove
evict_keep_entry(m, q) ==
    IF q # <<>>
    THEN [storage |-> m, usage_order |-> pop_back(q), evicted |-> back(q)]
    ELSE [storage |-> m, usage_order |-> q, evicted |-> NoKey]

evict_batch(m, q) ==
    IF q # <<>>
    THEN [storage |-> [x \in (DOMAIN m) \cap {Head(q)} |-> m[x]],
          usage_order |-> <<Head(q)>>, evicted |-> back(q)]
    ELSE [storage |-> m, usage_order |-> q, evicted |-> NoKey]

evict_front(m, q) ==
    IF q # <<>>
    THEN [storage |-> remove(m, Head(q)), usage_order |-> Tail(q), evicted |-> Head(q)]
    ELSE [storage |-> m, usage_order |-> q, evicted |-> NoKey]

evict(m, q) ==
    IF q # <<>>
    THEN [storage |-> remove(m, back(q)), usage_order |-> pop_back(q), evicted |-> back(q)]
    ELSE [storage |-> m, usage_order |-> q, evicted |-> NoKey]

\* ---- LRUCache::set (lines 46-57), as a function of the fields
set(cap, m, q, key, value) ==
    LET m1 == insert(m, key, value)
        q1 == update_usage(q, key)
    IN  IF exceeds(m1, cap)
        THEN evict(m1, q1)
        ELSE [storage |-> m1, usage_order |-> q1, evicted |-> NoKey]

\* ---- LRUCache::get (lines 59-67), as a function of the fields
get_promote_always(m, q, key) ==
    [usage_order |-> update_usage(q, key),
     ret |-> IF contains_key(m, key) THEN m[key] ELSE NoVal]

get_no_promote(m, q, key) ==
    [usage_order |-> q, ret |-> IF contains_key(m, key) THEN m[key] ELSE NoVal]

get(m, q, key) ==
    IF contains_key(m, key)
    THEN [usage_order |-> update_usage(q, key), ret |-> m[key]]
    ELSE [usage_order |-> q, ret |-> NoVal]

\* ---- LRUCache::new (lines 37-44): the assertion, then the empty cache
new_no_assert(c) == "ready"

new_assert_gt_one(c) == IF c > 1 THEN "ready" ELSE "aborted"

new(c) == IF c > 0 THEN "ready" ELSE "aborted"

\* the record kept of a call; repeat = same method and arguments as the call before it
Call(op, key, value, ret, evicted, cap) ==
    [op |-> op, key |-> key, value |-> value, ret |-> ret, evicted |-> evicted, cap |-> cap,
     repeat |-> (last.op = op /\ last.key = key /\ last.value = value /\ last.cap = cap)]

\* the get hits since the last eviction: read_at is cleared by the call after an eviction
PendingReads == IF last.evicted # NoKey THEN [k \in Keys |-> 0] ELSE read_at

\* the LRUCache example of main (lines 100-106) with the keys and values of the
\* spec's scenario: a, b, c are the keys 1, 2, 3
Example ==
    << [op |-> "new", key |-> NoKey, value |-> NoVal, cap |-> 2],
       [op |-> "set", key |-> 1, value |-> 1, cap |-> 0],
       [op |-> "set", key |-> 2, value |-> 2, cap |-> 0],
       [op |-> "get", key |-> 1, value |-> NoVal, cap |-> 0],
       [op |-> "set", key |-> 3, value |-> 3, cap |-> 0],
       [op |-> "get", key |-> 2, value |-> NoVal, cap |-> 0] >>

\* the scenario position after one more call
Follows(op, key, value, cap) ==
    IF /\ scenario >= 0
       /\ scenario < Len(Example)
       /\ Example[scenario + 1] = [op |-> op, key |-> key, value |-> value, cap |-> cap]
    THEN scenario + 1
    ELSE -1

Init ==
    /\ scenario = 0
    /\ phase = "unbuilt"
    /\ capacity = 0
    /\ storage = EmptyMap
    /\ usage_order = <<>>
    /\ last = [op |-> "none", key |-> NoKey, value |-> NoVal, ret |-> NoVal,
               evicted |-> NoKey, cap |-> 0, repeat |-> FALSE]
    /\ clock = 0
    /\ stamp = [k \in Keys |-> 0]
    /\ last_set = [k \in Keys |-> NoVal]
    /\ read_at = [k \in Keys |-> 0]
    /\ cache_storage = EmptyMap
    /\ cache_last = [op |-> "none", key |-> NoKey, value |-> NoVal, ret |-> NoVal]

\* LRUCache::new(c): panics when c = 0, otherwise builds the empty cache
New(c) ==
    /\ phase = "unbuilt"
    /\ phase' = new(c)
    /\ IF new(c) = "ready"
       THEN /\ capacity' = c
            /\ storage' = EmptyMap
            /\ usage_order' = <<>>
       ELSE UNCHANGED <<capacity, storage, usage_order>>
    /\ last' = Call("new", NoKey, NoVal, NoVal, NoKey, c)
    /\ scenario' = Follows("new", NoKey, NoVal, c)
    /\ UNCHANGED <<clock, stamp, last_set, read_at>>
    /\ UNCHANGED cache_vars

\* lrucache.set(key, value): what it does to the LRUCache
SetLru(key, value) ==
    /\ phase = "ready"
    /\ clock < MaxClock
    /\ LET r == set(capacity, storage, usage_order, key, value)
       IN  /\ storage' = r.storage
           /\ usage_order' = r.usage_order
           /\ last' = Call("set", key, value, NoVal, r.evicted, 0)
    /\ scenario' = Follows("set", key, value, 0)
    /\ read_at' = PendingReads
    /\ clock' = clock + 1
    /\ stamp' = [stamp EXCEPT ![key] = clock + 1]
    /\ last_set' = [last_set EXCEPT ![key] = value]
    /\ UNCHANGED <<phase, capacity>>

\* lrucache.set(key, value)
Set(key, value) == SetLru(key, value) /\ UNCHANGED cache_vars

\* lrucache.get(&key): what it does to the LRUCache
GetLru(key) ==
    /\ phase = "ready"
    /\ clock < MaxClock
    /\ LET r == get(storage, usage_order, key)
       IN  /\ usage_order' = r.usage_order
           /\ last' = Call("get", key, NoVal, r.ret, NoKey, 0)
    /\ scenario' = Follows("get", key, NoVal, 0)
    /\ clock' = clock + 1
    /\ IF contains_key(storage, key)
       THEN /\ stamp' = [stamp EXCEPT ![key] = clock + 1]
            /\ read_at' = IF len(storage) >= 2
                          THEN [PendingReads EXCEPT ![key] = clock + 1]
                          ELSE PendingReads
       ELSE /\ UNCHANGED stamp
            /\ read_at' = PendingReads
    /\ UNCHANGED <<phase, capacity, storage, last_set>>

\* lrucache.get(&key)
Get(key) == GetLru(key) /\ UNCHANGED cache_vars

\* lrucache.update_usage(&key), called directly: the method is pub
UpdateUsage(key) ==
    /\ phase = "ready"
    /\ clock < MaxClock
    /\ usage_order' = update_usage(usage_order, key)
    /\ last' = Call("update_usage", key, NoVal, NoVal, NoKey, 0)
    /\ scenario' = -1
    /\ read_at' = PendingReads
    /\ clock' = clock + 1
    /\ UNCHANGED <<phase, capacity, storage, stamp, last_set>>
    /\ UNCHANGED cache_vars

\* cache.set(key, value) on the unbounded Cache: what it does to the Cache
CacheSetStep(key, value) ==
    /\ cache_storage' = cache_set(cache_storage, key, value)
    /\ cache_last' = [op |-> "set", key |-> key, value |-> value, ret |-> NoVal]
    /\ last_set' = [last_set EXCEPT ![key] = value]

\* cache.set(key, value)
CacheSet(key, value) == CacheSetStep(key, value) /\ UNCHANGED lru_vars

\* cache.get(&key) on the unbounded Cache: what it does to the Cache
CacheGetStep(key) ==
    /\ cache_last' = [op |-> "get", key |-> key, value |-> NoVal,
                      ret |-> cache_get(cache_storage, key)]
    /\ UNCHANGED cache_storage

\* cache.get(&key)
CacheGet(key) == CacheGetStep(key) /\ UNCHANGED <<lru_vars, last_set>>

\* the same set and the same get given to the LRUCache and to the Cache
BothSet(key, value) == SetLru(key, value) /\ CacheSetStep(key, value)

BothGet(key) == GetLru(key) /\ CacheGetStep(key)

DoNew == \E c \in 0..MaxCapacity : New(c)
DoSet == \E key \in Keys, value \in Values : Set(key, value)
DoGet == \E key \in Keys : Get(key)
DoUpdateUsage == \E key \in Keys : UpdateUsage(key)

\* the cache used through new, set and get only
Next == DoNew \/ DoSet \/ DoGet

Spec == Init /\ [][Next]_vars

\* the cache used through every pub method
NextPub == DoNew \/ DoSet \/ DoGet \/ DoUpdateUsage

SpecPub == Init /\ [][NextPub]_vars

DoCacheSet == \E key \in Keys, value \in Values : CacheSet(key, value)
DoCacheGet == \E key \in Keys : CacheGet(key)

\* the unbounded Cache used through set and get
NextCache == DoCacheSet \/ DoCacheGet

SpecCache == Init /\ [][NextCache]_vars

DoBothSet == \E key \in Keys, value \in Values : BothSet(key, value)
DoBothGet == \E key \in Keys : BothGet(key)

\* an LRUCache and a Cache fed the same sequence of set and get
NextBoth == DoNew \/ DoBothSet \/ DoBothGet

SpecBoth == Init /\ [][NextBoth]_vars

\* ---- helpers of the properties
Range(q) == {q[i] : i \in 1..Len(q)}

NoDuplicates(q) == \A i, j \in 1..Len(q) : q[i] = q[j] => i = j

Pos(q, key) == CHOOSE i \in 1..Len(q) : q[i] = key

\* ---- C1: after every completed set or get on a cache of capacity c >= 1,
\* the store holds at most c entries.
CapacityBound ==
    (phase = "ready" /\ capacity >= 1) => len(storage) <= capacity

\* a full cache right after a set that evicted
FullAfterEviction ==
    last.op = "set" /\ last.evicted # NoKey /\ len(storage) = capacity

\* ---- C2: after every completed set or get, the recency sequence holds exactly
\* the keys of the store, each exactly once (no duplicate, no orphan, none missing).
RecencyMatchesStore ==
    last.op \in {"set", "get"} =>
        /\ NoDuplicates(usage_order)
        /\ \A i \in 1..Len(usage_order) : contains_key(storage, usage_order[i])
        /\ \A k \in DOMAIN storage : \E i \in 1..Len(usage_order) : usage_order[i] = k

\* a get hit that reordered a sequence of at least two keys after an eviction
PromotedAfterEviction ==
    /\ last.op = "get" /\ last.ret # NoVal
    /\ Len(usage_order) >= 2
    /\ \E k \in Keys : stamp[k] > 0 /\ ~contains_key(storage, k)

\* ---- C3: the recency sequence holds exactly the key set of the store, each key
\* once, after any pub method of LRUCache completes: new, set, get and
\* update_usage (also update_usage of a key that is not in the store).
RecencyMatchesStoreAfterAnyPub ==
    (phase = "ready" /\ last.op \in {"new", "set", "get", "update_usage"}) =>
        /\ Len(usage_order) = len(storage)
        /\ Range(usage_order) = DOMAIN storage

\* ---- C4: whenever a set evicts a key, the victim is a stored key whose last
\* touch (set or get hit) is older than the last touch of every other key stored
\* at that moment, i.e. it has the minimum stamp of the reference model.
EvictsLeastRecentlyTouched ==
    [][last'.evicted # NoKey =>
         /\ last'.op = "set"
         /\ contains_key(storage, last'.evicted)
         /\ \A x \in ((DOMAIN storage) \cup {last'.key}) \ {last'.evicted} :
                stamp'[last'.evicted] < stamp'[x]]_vars

\* an eviction whose victim is not the first key ever touched, with a survivor
EvictedAfterRetouch ==
    /\ last.evicted # NoKey
    /\ len(storage) >= 2
    /\ stamp[last.evicted] >= 2
    /\ \E x \in DOMAIN storage : x # last.key /\ stamp[x] > stamp[last.evicted] + 1

\* ---- C5 as stated: after a get hit of k made while the cache held another key,
\* the next operation that evicts does not evict k.
ReadKeyNeverNextVictim ==
    [][last'.evicted # NoKey => PendingReads[last'.evicted] = 0]_vars

\* ---- C5 as amended: after a get hit of k, the next eviction does not evict k
\* and k is still stored with its value, provided some other key that was stored
\* at the time of the get has not been touched (set or get hit) since.
OlderThanRead(k) ==
    {x \in (DOMAIN storage) \ {k} : stamp[x] < PendingReads[k]}

ReadKeySurvivesEviction ==
    [][last'.evicted # NoKey =>
         \A k \in Keys :
            (PendingReads[k] > 0 /\ OlderThanRead(k) # {}) =>
                /\ last'.evicted # k
                /\ contains_key(storage', k)
                /\ storage'[k] = last_set'[k]]_vars

\* an eviction that spared a key read before it, the victim being older than the read
EvictionSparedReadKey ==
    /\ last.evicted # NoKey
    /\ \E k \in DOMAIN storage :
          /\ k # last.key
          /\ read_at[k] > 0
          /\ stamp[last.evicted] < read_at[k]

\* ---- C6: get of a key that is not in the store returns None and leaves the
\* store, the recency sequence and the capacity as they were.
GetMissChangesNothing ==
    [][(last'.op = "get" /\ ~contains_key(storage, last'.key)) =>
         /\ last'.ret = NoVal
         /\ storage' = storage
         /\ usage_order' = usage_order
         /\ capacity' = capacity]_vars

\* a miss on a key that was set earlier and evicted since, the cache not empty
MissOnEvictedKey ==
    /\ last.op = "get" /\ last.ret = NoVal
    /\ stamp[last.key] > 0
    /\ usage_order # <<>>

\* ---- C7: get of a stored key k returns the value of the most recent set(k, v),
\* moves k to the front of the recency sequence, keeps the relative order of the
\* other keys, and leaves the store unchanged.
GetHitPromotes ==
    [][(last'.op = "get" /\ contains_key(storage, last'.key)) =>
         LET k == last'.key
             others == Range(usage_order) \ {k}
         IN  /\ last'.ret = last_set[k]
             /\ last'.ret # NoVal
             /\ usage_order' # <<>>
             /\ usage_order'[1] = k
             /\ Len(usage_order') = Len(usage_order)
             /\ Range(usage_order') = Range(usage_order)
             /\ \A x, y \in others :
                   (Pos(usage_order, x) < Pos(usage_order, y))
                     <=> (Pos(usage_order', x) < Pos(usage_order', y))
             /\ storage' = storage]_vars

\* a hit in a cache holding at least three keys, after at least five calls
HitAmongThree ==
    /\ last.op = "get" /\ last.ret # NoVal
    /\ Len(usage_order) >= 3
    /\ clock >= 5

\* ---- C8: right after set(k, v), for any capacity >= 1, k is stored with value v
\* and is at the front of the recency sequence; a set never evicts its own key.
SetStoresAtFront ==
    last.op = "set" =>
        /\ contains_key(storage, last.key)
        /\ storage[last.key] = last.value
        /\ usage_order # <<>>
        /\ usage_order[1] = last.key
        /\ last.evicted # last.key

\* a set into a full cache of capacity 1
SetIntoFullCapacityOne ==
    last.op = "set" /\ capacity = 1 /\ last.evicted # NoKey

\* ---- C9: a set(k, v) that repeats the call right before it leaves the state
\* of the first call: k has value v and is at the front, the store and the order
\* of the other keys are unchanged, and nothing is evicted.
RepeatedSetChangesNothing ==
    [][(last.op = "set" /\ last'.op = "set"
          /\ last'.key = last.key /\ last'.value = last.value) =>
         /\ storage' = storage
         /\ usage_order' = usage_order
         /\ capacity' = capacity
         /\ storage'[last'.key] = last'.value
         /\ usage_order'[1] = last'.key
         /\ last'.evicted = NoKey]_vars

\* the second of two identical sets, on a full cache of at least two keys
RepeatedSetOnFullCache ==
    /\ last.op = "set" /\ last.repeat
    /\ len(storage) = capacity
    /\ Len(usage_order) >= 2

\* ---- C10: LRUCache::new(capacity) aborts, producing no cache, when capacity
\* is 0; for every capacity >= 1 it produces a cache with an empty store, an
\* empty recency sequence and the given capacity.
NewChecksCapacity ==
    /\ last.op = "new" =>
          IF last.cap = 0
          THEN phase = "aborted"
          ELSE /\ phase = "ready"
               /\ storage = EmptyMap
               /\ usage_order = <<>>
               /\ capacity = last.cap
    /\ phase = "aborted" => (last.op = "new" /\ last.cap = 0)
    /\ phase = "ready" => capacity >= 1

\* construction with capacity 0 has aborted
NewAborted ==
    phase = "aborted" /\ last.op = "new" /\ last.cap = 0

\* ---- C11: a single set removes at most one previously stored key from the
\* store, and a get removes none.
AtMostOneKeyRemoved ==
    [][/\ last'.op = "set" => Cardinality((DOMAIN storage) \ (DOMAIN storage')) <= 1
       /\ last'.op = "get" => (DOMAIN storage) \ (DOMAIN storage') = {}]_vars

\* a set that evicted from a cache holding at least three keys
EvictedOneOfThree ==
    last.op = "set" /\ last.evicted # NoKey /\ len(storage) >= 3

\* ---- C12: keys that are not touched again after their insertion lie in the
\* recency sequence in reverse insertion order (the sequence is ordered by last
\* touch, newest first); when every call so far inserted a fresh distinct key,
\* the sequence is the last min(n, capacity) inserted keys, newest first, and
\* each overflowing insert evicts the oldest stored one (first in, first out).
FreshInsertsOnly ==
    phase = "ready" /\ Cardinality({k \in Keys : stamp[k] > 0}) = clock

InsertionOrderIsFifo ==
    /\ last.op \in {"set", "get"} =>
          \A i, j \in 1..Len(usage_order) :
              i < j => stamp[usage_order[i]] > stamp[usage_order[j]]
    /\ FreshInsertsOnly =>
          /\ Len(usage_order) = IF clock < capacity THEN clock ELSE capacity
          /\ \A i \in 1..Len(usage_order) : stamp[usage_order[i]] = clock - i + 1
          /\ clock > capacity =>
                (last.evicted # NoKey /\ stamp[last.evicted] = clock - capacity)
          /\ clock <= capacity => last.evicted = NoKey

\* two successive overflowing inserts after fresh inserts only, capacity >= 2
TwoFifoEvictions ==
    FreshInsertsOnly /\ capacity >= 2 /\ clock >= capacity + 2

\* ---- C16: set(k, v) evicts a key if and only if k was absent from the store
\* before the call and the store already held exactly capacity entries; an
\* overwrite never evicts, nor does an insert into a cache that is not full.
SetEvictsIffNewKeyOnFull ==
    [][last'.op = "set" =>
         LET newOnFull == ~contains_key(storage, last'.key) /\ len(storage) = capacity
         IN  /\ (last'.evicted # NoKey) <=> newOnFull
             /\ ((DOMAIN storage) \ (DOMAIN storage') # {}) <=> newOnFull]_vars

\* a set on a full cache of capacity 3 that evicted
SetEvictedAtCapacityThree ==
    last.op = "set" /\ last.evicted # NoKey /\ capacity = 3

\* ---- C17: set(k, v) leaves the value of every other key that stays stored,
\* the capacity, and the relative recency order of the surviving other keys
\* unchanged; it changes only k's value, k's position (front) and removes at
\* most the previous back key.
SetFrame ==
    [][last'.op = "set" =>
         LET k == last'.key
             survivors == (DOMAIN storage') \ {k}
         IN  /\ capacity' = capacity
             /\ contains_key(storage', k)
             /\ storage'[k] = last'.value
             /\ usage_order' # <<>>
             /\ usage_order'[1] = k
             /\ survivors \subseteq DOMAIN storage
             /\ \A x \in survivors : storage'[x] = storage[x]
             /\ Range(usage_order') = survivors \cup {k}
             /\ survivors \subseteq Range(usage_order)
             /\ \A x, y \in survivors :
                   (Pos(usage_order, x) < Pos(usage_order, y))
                     <=> (Pos(usage_order', x) < Pos(usage_order', y))
             /\ (DOMAIN storage) \ (DOMAIN storage') \subseteq
                   (IF usage_order = <<>> THEN {} ELSE {back(usage_order)}) \ {k}]_vars

\* a set that evicted and left at least two other keys, with different values
SetKeptTwoOthers ==
    /\ last.op = "set" /\ last.evicted # NoKey
    /\ \E x, y \in (DOMAIN storage) \ {last.key} : x # y /\ storage[x] # storage[y]

\* ---- C18: the number of stored entries never decreases from one completed
\* operation to the next, and once it equals capacity it equals capacity after
\* every later operation.
SizeNeverShrinks ==
    [][phase = "ready" =>
         /\ len(storage') >= len(storage)
         /\ len(storage) = capacity => len(storage') = capacity]_vars

\* a cache of capacity >= 2 that has stayed full over at least two more calls
StayedFull ==
    /\ phase = "ready" /\ capacity >= 2
    /\ len(storage) = capacity
    /\ clock >= capacity + 2
    /\ \E k \in Keys : stamp[k] > 0 /\ ~contains_key(storage, k)

\* ---- C20: whenever the overflow branch of set is taken (more than capacity
\* entries after the insert), the recency sequence is not empty and its back is
\* a stored key other than the key just set, so pop_back yields a key and the
\* removal deletes exactly that one entry, bringing the size back to capacity.
OverflowPopsStoredKey ==
    [][last'.op = "set" =>
         LET k == last'.key
             afterInsert == (DOMAIN storage) \cup {k}
             q1 == update_usage(usage_order, k)
         IN  Cardinality(afterInsert) > capacity =>
                /\ q1 # <<>>
                /\ q1[Len(q1)] \in afterInsert
                /\ q1[Len(q1)] # k
                /\ last'.evicted = q1[Len(q1)]
                /\ DOMAIN storage' = afterInsert \ {q1[Len(q1)]}
                /\ Cardinality(afterInsert) - len(storage') = 1
                /\ len(storage') = capacity]_vars

\* an overflow in a cache of capacity 2, after at least four calls
OverflowAtCapacityTwo ==
    /\ last.op = "set" /\ last.evicted # NoKey /\ capacity = 2
    /\ clock >= 4

\* ---- C15: in every reachable state of a cache built with capacity >= 1, set
\* and get can be called with every key and complete without aborting; a get of
\* an absent key completes with None; only new with capacity 0 can fail.
SetAndGetAreTotal ==
    /\ (phase = "ready" /\ clock < MaxClock) =>
          \A k \in Keys : ENABLED Get(k) /\ \A v \in Values : ENABLED Set(k, v)
    /\ last.op \in {"set", "get"} => phase = "ready"
    /\ (last.op = "get" /\ ~contains_key(storage, last.key)) => last.ret = NoVal
    /\ phase = "aborted" => (last.op = "new" /\ last.cap = 0)

\* a get that missed on a full cache completed, and further calls are possible
MissCompletedOnFullCache ==
    /\ phase = "ready" /\ clock < MaxClock
    /\ last.op = "get" /\ last.ret = NoVal
    /\ len(storage) = capacity

\* ---- C13: on a cache of capacity 2, set(a,1), set(b,2), get(a), set(c,3),
\* get(b) gives: store {a:1, b:2} and recency [b, a] after the two sets; get(a)
\* returns 1 and recency becomes [a, b]; set(c,3) evicts b, store {a:1, c:3},
\* recency [c, a]; get(b) returns None with store and recency unchanged.
ExampleScenario ==
    /\ scenario = 3 =>
          /\ storage = (1 :> 1 @@ 2 :> 2)
          /\ usage_order = <<2, 1>>
    /\ scenario = 4 =>
          /\ last.ret = 1
          /\ storage = (1 :> 1 @@ 2 :> 2)
          /\ usage_order = <<1, 2>>
    /\ scenario = 5 =>
          /\ last.evicted = 2
          /\ storage = (1 :> 1 @@ 3 :> 3)
          /\ usage_order = <<3, 1>>
    /\ scenario = 6 =>
          /\ last.ret = NoVal
          /\ storage = (1 :> 1 @@ 3 :> 3)
          /\ usage_order = <<3, 1>>

\* the whole example has run
ExampleCompleted ==
    scenario = 6 /\ capacity = 2 /\ last.op = "get" /\ last.key = 2

\* ---- C14: on the unbounded Cache, after any sequence of set and get, get(k)
\* returns the value of the most recent set(k, v) if k was ever set and None
\* otherwise; no key that was set is ever removed, however many keys are
\* inserted; get changes no state.
UnboundedCacheKeepsEverything ==
    [][/\ \A k \in Keys :
             IF last_set'[k] # NoVal
             THEN contains_key(cache_storage', k) /\ cache_storage'[k] = last_set'[k]
             ELSE ~contains_key(cache_storage', k)
       /\ DOMAIN cache_storage \subseteq DOMAIN cache_storage'
       /\ cache_last'.op = "get" =>
             /\ cache_last'.ret = last_set[cache_last'.key]
             /\ cache_storage' = cache_storage]_vars

\* a get hit on the unbounded Cache while it holds every key of the model
CacheHitWithEveryKey ==
    /\ cache_last.op = "get" /\ cache_last.ret # NoVal
    /\ len(cache_storage) = NumKeys

\* ---- C19: for a sequence of set and get that sets at most c distinct keys (so
\* for any sequence that uses at most c distinct keys), an LRUCache of capacity c
\* and an unbounded Cache fed the same sequence return the same result for every
\* get and hold the same key-value pairs after every step; the LRUCache evicts
\* nothing.
KeysSet == {k \in Keys : last_set[k] # NoVal}

SameAsUnboundedUpToCapacity ==
    (phase = "ready" /\ Cardinality(KeysSet) <= capacity) =>
        /\ storage = cache_storage
        /\ DOMAIN storage = KeysSet
        /\ last.evicted = NoKey
        /\ last.op = "get" => (cache_last.op = "get" /\ last.ret = cache_last.ret)

\* a get hit on both caches, the LRUCache being full with capacity >= 2
BothHitAtCapacity ==
    /\ phase = "ready" /\ capacity >= 2
    /\ Cardinality(KeysSet) = capacity
    /\ last.op = "get" /\ last.ret # NoVal /\ cache_last.ret = last.ret
    /\ clock >= capacity + 2

====
